---- MODULE Spec2Model ----
(***************************************************************************)
(* DrusillaSelect (mlpack, methods/approx_kfn/drusilla_select_impl.hpp):   *)
(* the candidate selection of Train and the brute-force scan of Search.   *)
(*                                                                         *)
(* Points are 2-dimensional with integer coordinates, a matrix is the      *)
(* sequence of its columns, and column indices are 0-based as in the       *)
(* source (column j of mat is mat[j + 1]).  Real quantities are kept exact *)
(* by scaling: for a reference set of n points, every centred vector is    *)
(* multiplied by n, norms are kept squared, and within one projection      *)
(* round offsets and distortions are multiplied by the (positive) length   *)
(* of the pivot's centred vector.  Each scaling is by a positive factor    *)
(* common to all the values that the source compares with each other, so   *)
(* every comparison of the source is decided as in exact arithmetic.       *)
(***************************************************************************)
EXTENDS Integers, Sequences, FiniteSets, Bags, TLC

\* ---------------------------------------------------------------- bounds
MaxCoord == 1
MaxN == 2
MaxTrainN == 3
MaxL == 2
MaxM == 2
MaxK == 2
MaxQ == 1
MaxRetrain == 1

Points == (0..MaxCoord) \X (0..MaxCoord)
Mats(lo, hi) == UNION {[1..n -> Points] : n \in lo..hi}
\* The reference sets of the object's life, and those of the training
\* algorithm taken alone.
RefSets == Mats(1, MaxN)
TrainSets == Mats(1, MaxTrainN)
QuerySets == Mats(0, MaxQ)

\* ------------------------------------------------------- vector helpers
Abs(x) == IF x < 0 THEN -x ELSE x
Dot(a, b) == a[1] * b[1] + a[2] * b[2]
Cross(a, b) == a[1] * b[2] - a[2] * b[1]
NCols(mat) == Len(mat)
Col(mat, j) == mat[j + 1]

RECURSIVE ColSumTo(_, _)
ColSumTo(mat, n) ==
  IF n = 0 THEN <<0, 0>>
  ELSE LET s == ColSumTo(mat, n - 1)
       IN <<s[1] + mat[n][1], s[2] + mat[n][2]>>

\* n * dataMean (line 73), n = referenceSet.n_cols.
DataMeanN(referenceSet) == ColSumTo(referenceSet, NCols(referenceSet))

\* n * refCopy (line 76): the reference set with the mean taken from every
\* column.
RefCopy(referenceSet) ==
  LET n == NCols(referenceSet)
      s == DataMeanN(referenceSet)
  IN [j \in 1..n |-> <<n * referenceSet[j][1] - s[1], n * referenceSet[j][2] - s[2]>>]

\* (n * norms[j])^2 as first computed (lines 77-78): the norm of the centred
\* column minus the mean once more.
InitNorms(referenceSet) ==
  LET n == NCols(referenceSet)
      s == DataMeanN(referenceSet)
      refCopy == RefCopy(referenceSet)
  IN [j \in 1..n |->
        LET v == <<refCopy[j][1] - s[1], refCopy[j][2] - s[2]>> IN Dot(v, v)]

\* norms.max(maxIndex) (line 85): the first index holding the maximum.
MaxIndex(norms) ==
  CHOOSE j \in 0..(Len(norms) - 1) :
    /\ \A i \in 0..(Len(norms) - 1) : norms[i + 1] <= norms[j + 1]
    /\ \A i \in 0..(j - 1) : norms[i + 1] < norms[j + 1]

\* ------------------------------------------------------ double values
\* A double of the selection: a finite number, NaN, or the value of
\* double(size_t(-1)), which exceeds every finite number of the model.
Num(v) == [k |-> "num", v |-> v]
NaN == [k |-> "nan", v |-> 0]
SizeMaxAsDouble == [k |-> "max", v |-> 0]

\* a > b on doubles: false when either side is NaN.
DGt(a, b) ==
  /\ a.k # "nan"
  /\ b.k # "nan"
  /\ \/ a.k = "max" /\ b.k = "num"
     \/ a.k = "num" /\ b.k = "num" /\ a.v > b.v

\* ------------------------------------------- one projection (lines 87-107)
\* offsets (lines 93-106), times n * |refCopy.col(maxIndex)|.  The line is
\* refCopy.col(maxIndex) / norm(refCopy.col(maxIndex)): all NaN when the
\* pivot's centred column is zero.
Offsets(refCopy, norms, maxIndex) ==
  LET p == Col(refCopy, maxIndex)
  IN [j \in 1..Len(refCopy) |->
        IF norms[j] > 0
        THEN IF p = <<0, 0>> THEN NaN ELSE Num(Dot(refCopy[j], p))
        ELSE Num(0)]

\* distortions (lines 93-106), same scaling; in the plane the residual of c
\* after removing its component along the unit line u has length |c x u|.
Distortions(refCopy, norms, maxIndex) ==
  LET p == Col(refCopy, maxIndex)
  IN [j \in 1..Len(refCopy) |->
        IF norms[j] > 0
        THEN IF p = <<0, 0>> THEN NaN ELSE Num(Abs(Cross(refCopy[j], p)))
        ELSE Num(0)]

\* sums = abs(offsets) - abs(distortions) (line 107).
Sums(offsets, distortions) ==
  [j \in 1..Len(offsets) |->
     IF offsets[j].k = "nan" \/ distortions[j].k = "nan" THEN NaN
     ELSE Num(Abs(offsets[j].v) - Abs(distortions[j].v))]

\* ------------------------------------- top-m selection (lines 115-136)
\* struct CandidateCmp (lines 116-122) on Candidate = pair<double, size_t>.
CandidateCmp(c1, c2) == DGt(c2.first, c1.first)

\* std::make_pair(size_t(-1), double(0.0)) converted to pair<double, size_t>
\* (line 124): first is double(size_t(-1)), second is size_t(0.0).
InitCandidate == [first |-> SizeMaxAsDouble, second |-> 0]

\* The priority queue is the bag of its elements; the m initial elements are
\* equal (lines 124-126).
InitPQ(m) == [c \in {InitCandidate} |-> m]

\* pq.top(): an element that CandidateCmp orders before no other element.
\* Which of several such elements is on top is left to the heap: every one
\* of them is a possible top.
Tops(pq) ==
  {c \in BagToSet(pq) : \A d \in BagToSet(pq) : ~CandidateCmp(c, d)}

Pop(pq, t) == pq (-) SetToBag({t})
Push(pq, c) == pq (+) SetToBag({c})

\* The loop of lines 128-136 from element j on: the queues it can end with.
RECURSIVE FillPQ(_, _, _)
FillPQ(pqs, sums, j) ==
  IF j = Len(sums) THEN pqs
  ELSE LET c == [first |-> sums[j + 1], second |-> j]
           next == UNION {{IF CandidateCmp(c, t) THEN Push(Pop(pq, t), c)
                           ELSE pq : t \in Tops(pq)} : pq \in pqs}
       IN FillPQ(next, sums, j + 1)

\* The pq.top() / pq.pop() sequence of lines 141-142, cnt times: the orders
\* in which the queue can be emptied.
RECURSIVE TakeOrders(_, _)
TakeOrders(pq, cnt) ==
  IF cnt = 0 THEN {<<>>}
  ELSE UNION {{<<t>> \o rest : rest \in TakeOrders(Pop(pq, t), cnt - 1)}
              : t \in Tops(pq)}

\* --------------------------------- taking the top m (lines 139-147)
\* candidateSet.col(i * m + j) with i * m + j >= candidateSet.n_cols is an
\* out-of-bounds column access.  A bounds-checked Armadillo build throws
\* std::logic_error ("throw"); a build with the checks compiled out writes
\* outside the matrix, which either ends the process ("crash") or lands in
\* memory that is not part of the object ("lost").
OobOutcomes == {"throw", "crash", "lost"}

RECURSIVE TakeTop(_, _, _, _, _, _, _, _)
TakeTop(referenceSet, cs, norms, order, i, m, j, oob) ==
  IF j = m THEN [candidateSet |-> cs, norms |-> norms, fault |-> FALSE]
  ELSE LET index == order[j + 1].second
           pos == i * m + j
       IN IF pos < NCols(cs)
          THEN TakeTop(referenceSet,
                       [cs EXCEPT ![pos + 1] = Col(referenceSet, index)],
                       [norms EXCEPT ![index + 1] = 0], order, i, m, j + 1, oob)
          ELSE IF oob = "lost"
          THEN TakeTop(referenceSet, cs, [norms EXCEPT ![index + 1] = 0],
                       order, i, m, j + 1, oob)
          ELSE [candidateSet |-> cs, norms |-> norms, fault |-> TRUE]

\* ------------------------------------------ far points (lines 151-153)
\* farPoints[j] = (atan(distortions[j] / abs(offsets[j])) >= M_PI / 8.0).
\* 0/0 and NaN operands give NaN, and a comparison with NaN is false; d/0
\* with d > 0 is +inf and atan(+inf) = pi/2.  Otherwise, with tan(pi/8) =
\* sqrt(2) - 1:  atan(d/|o|) >= pi/8  <=>  d + |o| >= sqrt(2) |o|
\* <=>  (d + |o|)^2 >= 2 o^2.
FarPoints(offsets, distortions) ==
  [j \in 1..Len(offsets) |->
     LET o == offsets[j]
         d == distortions[j]
     IN IF o.k = "nan" \/ d.k = "nan" THEN FALSE
        ELSE IF o.v = 0 THEN d.v > 0
        ELSE (d.v + Abs(o.v)) * (d.v + Abs(o.v)) >= 2 * o.v * o.v]

\* The multiplication reversed: the far points are the ones zeroed.
TimesNearPoints(norms, farPoints) ==
  [j \in 1..Len(norms) |-> IF farPoints[j] THEN 0 ELSE norms[j]]

\* norms %= farPoints (line 153).
TimesFarPoints(norms, farPoints) ==
  [j \in 1..Len(norms) |-> IF farPoints[j] THEN norms[j] ELSE 0]

\* --------------------------------- one projection round (lines 83-153)
\* st = [candidateSet, norms, fault, rounds]; rounds records, for each round
\* run, what the round computed.  The results are one per order in which the
\* queue can be emptied.
Round(referenceSet, refCopy, m, i, st, oob) ==
  LET norms == st.norms
      maxIndex == MaxIndex(norms)
      offsets == Offsets(refCopy, norms, maxIndex)
      distortions == Distortions(refCopy, norms, maxIndex)
      sums == Sums(offsets, distortions)
      farPoints == FarPoints(offsets, distortions)
      orders == UNION {TakeOrders(pq, m) : pq \in FillPQ({InitPQ(m)}, sums, 0)}
  IN {LET t == TakeTop(referenceSet, st.candidateSet, norms, order, i, m, 0, oob)
          after == IF t.fault THEN t.norms ELSE TimesFarPoints(t.norms, farPoints)
      IN [candidateSet |-> t.candidateSet,
          norms |-> after,
          fault |-> t.fault,
          rounds |-> Append(st.rounds,
                       [maxIndex |-> maxIndex, offsets |-> offsets,
                        distortions |-> distortions, sums |-> sums,
                        taken |-> order, normsBefore |-> norms,
                        normsAfter |-> after, completed |-> ~t.fault])]
      : order \in orders}

\* The loop of line 81 from round i on.
RECURSIVE Rounds(_, _, _, _, _, _, _)
Rounds(referenceSet, refCopy, l, m, i, sts, oob) ==
  IF i = l THEN sts
  ELSE Rounds(referenceSet, refCopy, l, m, i + 1,
              UNION {IF st.fault THEN {st}
                     ELSE Round(referenceSet, refCopy, m, i, st, oob)
                     : st \in sts},
              oob)

\* ------------------------------------------------- Train (lines 56-155)
\* self = [l, m, candidateSet, candidateIndices].  The possible results of
\* the call: the object's fields after it, how it ended ("ok",
\* "InvalidArgument", "LogicError", "Crash") and the rounds it ran.
Train(self, referenceSet, lIn, mIn, oob) ==
  LET l2 == IF lIn > 0 THEN lIn ELSE self.l
      m2 == IF mIn > 0 THEN mIn ELSE self.m
  IN IF l2 * m2 > NCols(referenceSet)
     THEN {[l |-> l2, m |-> m2, candidateSet |-> self.candidateSet,
            candidateIndices |-> self.candidateIndices,
            outcome |-> "InvalidArgument", rounds |-> <<>>]}
     ELSE {[l |-> l2, m |-> m2, candidateSet |-> st.candidateSet,
            candidateIndices |-> self.candidateIndices,
            outcome |-> IF ~st.fault THEN "ok"
                        ELSE IF oob = "throw" THEN "LogicError" ELSE "Crash",
            rounds |-> st.rounds]
           : st \in Rounds(referenceSet, RefCopy(referenceSet), l2, m2, 0,
                           {[candidateSet |-> self.candidateSet,
                             norms |-> InitNorms(referenceSet),
                             fault |-> FALSE, rounds |-> <<>>]}, oob)}

\* Whether the call writes a column candidateSet does not have: Train never
\* resizes candidateSet, and writes columns 0 .. l * m - 1 (line 143).
Overruns(self, referenceSet, lIn, mIn) ==
  LET l2 == IF lIn > 0 THEN lIn ELSE self.l
      m2 == IF mIn > 0 THEN mIn ELSE self.m
  IN l2 * m2 <= NCols(referenceSet) /\ l2 * m2 > NCols(self.candidateSet)

\* ------------------------------------------------ Search (lines 158-191)
\* size_t() - 1 (line 181), the index no candidate has; as a size_t it is
\* 2^64 - 1, written -1 here.
SizeMax == -1

\* candidateIndices[idx] (line 190), an unchecked element access.  idx
\* outside the vector reads memory that is not part of it: the value read is
\* arbitrary (junk), the same for every read of the same address.
IndexAt(candidateIndices, idx, junk) ==
  IF idx >= 0 /\ idx < Len(candidateIndices) THEN candidateIndices[idx + 1]
  ELSE junk

\* Values such a read can give: an index every reference set has, one no
\* reference set has, and size_t() - 1.
JunkValues == {0, MaxN, SizeMax}

\* Lines 180-182: neighbors is k x querySet.n_cols filled with size_t() - 1
\* and distances is k x querySet.n_cols of zeros; a matrix is the sequence
\* of its columns, one per query point.
FilledMat(querySet, k, v) == [q \in 1..NCols(querySet) |-> [i \in 1..k |-> v]]

\* Lines 184-186 run rules.BaseCase(q, r) for every pair; the rules object
\* was built from querySet, candidateSet, k and the metric only (line 178),
\* so the loop changes the local rules object and neither neighbors nor
\* distances.  Lines 189-190 then map every element of neighbors.
MapBack(neighbors, candidateIndices, junk) ==
  [q \in 1..Len(neighbors) |->
     [i \in 1..Len(neighbors[q]) |->
        IndexAt(candidateIndices, neighbors[q][i], junk)]]

\* Whether lines 189-190 read outside candidateIndices.
ReadsOutside(neighbors, candidateIndices) ==
  \E q \in 1..Len(neighbors) : \E i \in 1..Len(neighbors[q]) :
    ~(neighbors[q][i] >= 0 /\ neighbors[q][i] < Len(candidateIndices))

\* The possible results of Search(querySet, k, neighbors, distances):
\* outcome "NotTrained" is std::runtime_error (line 165), "InvalidArgument"
\* std::invalid_argument (line 169), "Crash" the process ending on a read
\* outside candidateIndices.
Search(self, querySet, k) ==
  IF NCols(self.candidateSet) = 0
  THEN {[outcome |-> "NotTrained", neighbors |-> <<>>, distances |-> <<>>]}
  ELSE IF k > self.l * self.m
  THEN {[outcome |-> "InvalidArgument", neighbors |-> <<>>, distances |-> <<>>]}
  ELSE LET filled == FilledMat(querySet, k, SizeMax)
           zeros == FilledMat(querySet, k, 0)
       IN {[outcome |-> "ok",
            neighbors |-> MapBack(filled, self.candidateIndices, junk),
            distances |-> zeros] : junk \in JunkValues}
          \cup (IF ReadsOutside(filled, self.candidateIndices)
                THEN {[outcome |-> "Crash", neighbors |-> <<>>, distances |-> <<>>]}
                ELSE {})

\* ------------------------------------------------------------- state
VARIABLES
  alive,             \* "none": not constructed; "live"; "crashed"
  l, m,              \* the object's l and m
  candidateSet,      \* the object's candidateSet, a sequence of columns
  candidateIndices,  \* the object's candidateIndices
  trained,           \* history: some Train call on the object returned normally
  trainRef,          \* history: the reference set of the last such call
  retrains,          \* history: the number of Train calls after construction
  last,              \* history: the last call, its arguments and its result
  th                 \* the concurrent callers of Search: where each one is

vars == <<alive, l, m, candidateSet, candidateIndices, trained, trainRef,
          retrains, last, th>>

Self == [l |-> l, m |-> m, candidateSet |-> candidateSet,
         candidateIndices |-> candidateIndices]

NoCall == [op |-> "none", outcome |-> "none", lIn |-> 0, mIn |-> 0,
           rounds |-> <<>>, querySet |-> <<>>, k |-> 0,
           neighbors |-> <<>>, distances |-> <<>>]

\* Two threads that call Search on the one object.
Threads == {1, 2}

IdleThread == [pc |-> "idle", querySet |-> <<>>, k |-> 0, neighbors |-> <<>>,
               distances |-> <<>>, outcome |-> "none"]

\* The columns of a matrix created with a size and not yet written
\* (candidateSet(referenceSet.n_rows, l * m), line 27).
Unwritten == <<-1, -1>>

Init ==
  /\ alive = "none"
  /\ l = 0
  /\ m = 0
  /\ candidateSet = <<>>
  /\ candidateIndices = <<>>
  /\ trained = FALSE
  /\ trainRef = <<>>
  /\ retrains = 0
  /\ last = NoCall
  /\ th = [t \in Threads |-> IdleThread]

\* DrusillaSelect(referenceSet, l, m) (lines 24-39).  A constructor that
\* throws leaves no object.  A behaviour is the life of one object: it
\* starts with one constructor call.
ConstructWithData(referenceSet, lArg, mArg) ==
  /\ alive = "none"
  /\ last.op = "none"
  /\ IF lArg = 0 \/ mArg = 0
     THEN /\ last' = [NoCall EXCEPT !.op = "ConstructWithData",
                        !.outcome = "InvalidArgument",
                        !.lIn = lArg, !.mIn = mArg]
          /\ UNCHANGED <<alive, l, m, candidateSet, candidateIndices, trained,
                         trainRef, retrains, th>>
     ELSE \E r \in Train([l |-> lArg, m |-> mArg,
                          candidateSet |-> [c \in 1..(lArg * mArg) |-> Unwritten],
                          candidateIndices |-> <<>>],
                         referenceSet, lArg, mArg, "throw") :
            /\ last' = [NoCall EXCEPT !.op = "ConstructWithData",
                          !.outcome = r.outcome, !.lIn = lArg, !.mIn = mArg,
                          !.rounds = r.rounds]
            /\ IF r.outcome = "ok"
               THEN /\ alive' = "live"
                    /\ l' = r.l
                    /\ m' = r.m
                    /\ candidateSet' = r.candidateSet
                    /\ candidateIndices' = r.candidateIndices
                    /\ trained' = TRUE
                    /\ trainRef' = referenceSet
                    /\ UNCHANGED <<retrains, th>>
               ELSE UNCHANGED <<alive, l, m, candidateSet, candidateIndices,
                                trained, trainRef, retrains, th>>

\* DrusillaSelect(l, m) (lines 42-53).
ConstructNoData(lArg, mArg) ==
  /\ alive = "none"
  /\ last.op = "none"
  /\ last' = [NoCall EXCEPT !.op = "ConstructNoData",
                !.outcome = IF lArg = 0 \/ mArg = 0 THEN "InvalidArgument" ELSE "ok",
                !.lIn = lArg, !.mIn = mArg]
  /\ IF lArg = 0 \/ mArg = 0
     THEN UNCHANGED <<alive, l, m>>
     ELSE /\ alive' = "live"
          /\ l' = lArg
          /\ m' = mArg
  /\ UNCHANGED <<candidateSet, candidateIndices, trained, trainRef, retrains, th>>

\* Train(referenceSet, lIn, mIn) on the constructed object (lines 56-155).
TrainCall(referenceSet, lIn, mIn) ==
  /\ alive = "live"
  /\ last.op # "Search"
  /\ retrains < MaxRetrain
  /\ \E oob \in (IF Overruns(Self, referenceSet, lIn, mIn)
                  THEN OobOutcomes ELSE {"throw"}) :
     \E r \in Train(Self, referenceSet, lIn, mIn, oob) :
       /\ l' = r.l
       /\ m' = r.m
       /\ candidateSet' = r.candidateSet
       /\ candidateIndices' = r.candidateIndices
       /\ alive' = IF r.outcome = "Crash" THEN "crashed" ELSE "live"
       /\ trained' = (trained \/ r.outcome = "ok")
       /\ trainRef' = IF r.outcome = "ok" THEN referenceSet ELSE trainRef
       /\ retrains' = retrains + 1
       /\ last' = [NoCall EXCEPT !.op = "Train", !.outcome = r.outcome,
                     !.lIn = lIn, !.mIn = mIn, !.rounds = r.rounds]
       /\ UNCHANGED th

\* Search(querySet, k, neighbors, distances) on the constructed object
\* (lines 158-191).  Search leaves the object as it was, so the calls that
\* could follow it start from the object of a behaviour without it: the
\* model follows each object up to its first Search.
SearchCall(querySet, k) ==
  /\ alive = "live"
  /\ last.op # "Search"
  /\ \E r \in Search(Self, querySet, k) :
       /\ alive' = IF r.outcome = "Crash" THEN "crashed" ELSE "live"
       /\ last' = [NoCall EXCEPT !.op = "Search", !.outcome = r.outcome,
                     !.querySet = querySet, !.k = k,
                     !.neighbors = r.neighbors, !.distances = r.distances]
       /\ UNCHANGED <<l, m, candidateSet, candidateIndices, trained, trainRef,
                      retrains, th>>

Next ==
  \/ /\ alive = "none"
     /\ \E referenceSet \in RefSets : \E lArg \in 0..MaxL : \E mArg \in 0..MaxM :
          ConstructWithData(referenceSet, lArg, mArg)
  \/ /\ alive = "none"
     /\ \E lArg \in 0..MaxL : \E mArg \in 0..MaxM : ConstructNoData(lArg, mArg)
  \/ /\ alive = "live"
     /\ last.op # "Search"
     /\ retrains < MaxRetrain
     /\ \E referenceSet \in RefSets : \E lIn \in 0..MaxL : \E mIn \in 0..MaxM :
          TrainCall(referenceSet, lIn, mIn)
  \/ /\ alive = "live"
     /\ last.op # "Search"
     /\ \E querySet \in QuerySets : \E k \in 0..MaxK : SearchCall(querySet, k)

Spec == Init /\ [][Next]_vars

\* The training algorithm alone: one construction from a reference set.
NextTrain ==
  /\ alive = "none"
  /\ last.op = "none"
  /\ \E referenceSet \in TrainSets : \E lArg \in 0..MaxL : \E mArg \in 0..MaxM :
       ConstructWithData(referenceSet, lArg, mArg)

SpecTrain == Init /\ [][NextTrain]_vars

\* ------------------------------------- Search, statement by statement
\* The same Search run by the threads of Threads on the one object, each
\* thread at its own place in it; a step is what one thread does between two
\* reads of the object.  No Train runs meanwhile: callers keep Train
\* exclusive.

\* Lines 164-170: the two checks, reading candidateSet.n_cols, l and m.
SearchEnter(t, querySet, k) ==
  /\ alive = "live"
  /\ th[t].pc = "idle"
  /\ th' = [th EXCEPT ![t] =
       IF NCols(candidateSet) = 0
       THEN [IdleThread EXCEPT !.pc = "done", !.querySet = querySet, !.k = k,
                               !.outcome = "NotTrained"]
       ELSE IF k > l * m
       THEN [IdleThread EXCEPT !.pc = "done", !.querySet = querySet, !.k = k,
                               !.outcome = "InvalidArgument"]
       ELSE [IdleThread EXCEPT !.pc = "scan", !.querySet = querySet, !.k = k]]
  /\ UNCHANGED <<alive, l, m, candidateSet, candidateIndices, trained,
                 trainRef, retrains, last>>

\* A scan that takes the candidates out of the object as it reads them.
SearchScanMoving(t) ==
  /\ alive = "live"
  /\ th[t].pc = "scan"
  /\ th' = [th EXCEPT ![t].pc = "map",
                      ![t].neighbors = FilledMat(th[t].querySet, th[t].k, SizeMax),
                      ![t].distances = FilledMat(th[t].querySet, th[t].k, 0)]
  /\ candidateSet' = <<>>
  /\ UNCHANGED <<alive, l, m, candidateIndices, trained, trainRef, retrains, last>>

\* Lines 175-186: the caller's neighbors and distances are sized and filled,
\* and rules.BaseCase(q, r) runs for every query and every column of
\* candidateSet, on the thread's own rules object.
SearchScan(t) ==
  /\ alive = "live"
  /\ th[t].pc = "scan"
  /\ th' = [th EXCEPT ![t].pc = "map",
                      ![t].neighbors = FilledMat(th[t].querySet, th[t].k, SizeMax),
                      ![t].distances = FilledMat(th[t].querySet, th[t].k, 0)]
  /\ UNCHANGED <<alive, l, m, candidateSet, candidateIndices, trained,
                 trainRef, retrains, last>>

\* Lines 189-190: every element of neighbors is mapped through
\* candidateIndices; a read outside it gives junk or ends the process.
SearchMap(t) ==
  /\ alive = "live"
  /\ th[t].pc = "map"
  /\ \/ /\ \E junk \in JunkValues :
             th' = [th EXCEPT ![t].pc = "done", ![t].outcome = "ok",
                      ![t].neighbors = MapBack(th[t].neighbors, candidateIndices, junk)]
        /\ UNCHANGED alive
     \/ /\ ReadsOutside(th[t].neighbors, candidateIndices)
        /\ th' = [th EXCEPT ![t].pc = "done", ![t].outcome = "Crash",
                    ![t].neighbors = <<>>, ![t].distances = <<>>]
        /\ alive' = "crashed"
  /\ UNCHANGED <<l, m, candidateSet, candidateIndices, trained, trainRef,
                 retrains, last>>

\* The call has returned or thrown; the thread may call again.
SearchReturn(t) ==
  /\ alive = "live"
  /\ th[t].pc = "done"
  /\ th' = [th EXCEPT ![t] = IdleThread]
  /\ UNCHANGED <<alive, l, m, candidateSet, candidateIndices, trained,
                 trainRef, retrains, last>>

NextConc ==
  \/ /\ alive = "none"
     /\ \E referenceSet \in RefSets : \E lArg \in 0..MaxL : \E mArg \in 0..MaxM :
          ConstructWithData(referenceSet, lArg, mArg)
  \/ /\ alive = "none"
     /\ \E lArg \in 0..MaxL : \E mArg \in 0..MaxM : ConstructNoData(lArg, mArg)
  \/ \E t \in Threads : \E querySet \in QuerySets : \E k \in 0..MaxK :
       SearchEnter(t, querySet, k)
  \/ \E t \in Threads : SearchScan(t)
  \/ \E t \in Threads : SearchMap(t)
  \/ \E t \in Threads : SearchReturn(t)

SpecConc == Init /\ [][NextConc]_vars

\* =================================================================
\* Properties
\* =================================================================
Range(f) == {f[i] : i \in DOMAIN f}
IsTrainCall == last.op \in {"Train", "ConstructWithData"}

\* The original indices taken by the rounds of the last Train, in the order
\* of the candidate positions they were taken for.
RECURSIVE TakenIndices(_)
TakenIndices(rounds) ==
  IF rounds = <<>> THEN <<>>
  ELSE TakenIndices(SubSeq(rounds, 1, Len(rounds) - 1))
       \o [j \in 1..Len(rounds[Len(rounds)].taken) |->
             rounds[Len(rounds)].taken[j].second]

\* C1: candidateSet has 0 columns while no Train call has succeeded on the
\* object, and exactly l * m columns, for the stored l and m, once one has.
C1_WidthIsLTimesM ==
  alive = "live" =>
    NCols(candidateSet) = (IF trained THEN l * m ELSE 0)

\* C2: after a successful Train, candidateIndices has length l * m, every
\* entry is an index into the reference set of that call, column i of
\* candidateSet is the reference point at candidateIndices[i], and the points
\* taken in round r are at positions r * m .. r * m + m - 1.
C2_IndicesRecorded ==
  (alive = "live" /\ IsTrainCall /\ last.outcome = "ok") =>
    /\ Len(candidateIndices) = l * m
    /\ NCols(candidateSet) = l * m
    /\ \A i \in 0..(l * m - 1) :
         /\ candidateIndices[i + 1] \in 0..(NCols(trainRef) - 1)
         /\ Col(candidateSet, i) = Col(trainRef, candidateIndices[i + 1])
    /\ candidateIndices = TakenIndices(last.rounds)

\* Squared Euclidean distance.
DistSq(a, b) == Dot(<<a[1] - b[1], a[2] - b[2]>>, <<a[1] - b[1], a[2] - b[2]>>)

\* ds (distances, furthest first) are the Len(ds) largest distances from
\* point q to the columns of cs.
AreLargest(ds, q, cs) ==
  \E f \in [1..Len(ds) -> 1..NCols(cs)] :
    /\ \A i, j \in 1..Len(ds) : i # j => f[i] # f[j]
    /\ \A i \in 1..Len(ds) : ds[i] >= 0 /\ ds[i] * ds[i] = DistSq(q, cs[f[i]])
    /\ \A i \in 1..(Len(ds) - 1) : ds[i] >= ds[i + 1]
    /\ \A c \in 1..NCols(cs) :
         c \notin Range(f) => \A i \in 1..Len(ds) : DistSq(q, cs[c]) <= ds[i] * ds[i]

\* C3: on a trained object with k <= l * m, Search returns for every query
\* point k (index, distance) pairs, furthest first, whose distances are the k
\* largest distances from the query to the candidates; every index is an
\* index into the reference set of the training, never size_t(-1), and every
\* distance is the distance from the query to the reference point at the
\* returned index.
C3_SearchReturnsFurthest ==
  (last.op = "Search" /\ last.outcome = "ok" /\ trained /\ last.k <= l * m) =>
    /\ Len(last.neighbors) = NCols(last.querySet)
    /\ Len(last.distances) = NCols(last.querySet)
    /\ \A q \in 1..NCols(last.querySet) :
         /\ Len(last.neighbors[q]) = last.k
         /\ Len(last.distances[q]) = last.k
         /\ AreLargest(last.distances[q], last.querySet[q], candidateSet)
         /\ \A i \in 1..last.k :
              /\ last.neighbors[q][i] # SizeMax
              /\ last.neighbors[q][i] \in 0..(NCols(trainRef) - 1)
              /\ last.distances[q][i] * last.distances[q][i] =
                   DistSq(last.querySet[q], Col(trainRef, last.neighbors[q][i]))

\* C4: a successful Train on a trained object, with another dataset and other
\* (l, m), leaves nothing of the earlier training: candidateSet has the new
\* l * m columns, each a point of the new dataset, and candidateIndices the
\* new l * m entries, each an index into the new dataset.
C4_RetrainDiscards ==
  [][(/\ retrains' = retrains + 1
      /\ last'.outcome = "ok"
      /\ trained
      /\ trainRef' # trainRef
      /\ <<l', m'>> # <<l, m>>)
     => (/\ NCols(candidateSet') = l' * m'
         /\ \A i \in 1..NCols(candidateSet') : candidateSet'[i] \in Range(trainRef')
         /\ Len(candidateIndices') = l' * m'
         /\ \A i \in 1..Len(candidateIndices') :
              candidateIndices'[i] \in 0..(NCols(trainRef') - 1))]_vars

\* C5: a Train call that fails with InvalidArgument (its effective l * m
\* exceeds the number of reference points) leaves l, m, candidateSet and
\* candidateIndices as they were.
C5_FailedTrainKeepsState ==
  [][(retrains' = retrains + 1 /\ last'.outcome = "InvalidArgument")
     => UNCHANGED <<l, m, candidateSet, candidateIndices>>]_vars

\* C6: Search fails with NotTrained when no Train call has succeeded on the
\* object, with InvalidArgument when one has and k > l * m, and otherwise
\* completes without an error.
C6_SearchOutcome ==
  last.op = "Search" =>
    last.outcome = (IF ~trained THEN "NotTrained"
                    ELSE IF last.k > l * m THEN "InvalidArgument"
                    ELSE "ok")

\* C8: in every round of Train the m entries taken from the queue are real
\* reference points (never an initial entry of the queue) and no point left
\* untaken in the round has a score strictly greater than a taken point's.
C8_TakesLargestScores ==
  IsTrainCall =>
    \A r \in 1..Len(last.rounds) :
      LET rd == last.rounds[r]
          takenIdx == {rd.taken[j].second : j \in 1..Len(rd.taken)}
      IN /\ \A j \in 1..Len(rd.taken) : rd.taken[j] # InitCandidate
         /\ \A j \in 1..Len(rd.taken) :
              \A u \in 0..(Len(rd.sums) - 1) :
                u \notin takenIdx => ~DGt(rd.sums[u + 1], rd.taken[j].first)

\* C9: within one Train call no point is taken twice, so the l * m candidates
\* are pairwise distinct reference points; when l * m is the number of
\* reference points every reference point is taken exactly once.
C9_NoPointTakenTwice ==
  (IsTrainCall /\ last.outcome = "ok") =>
    LET taken == TakenIndices(last.rounds)
    IN /\ \A i, j \in 1..Len(taken) : i # j => taken[i] # taken[j]
       /\ Len(taken) = NCols(trainRef) =>
            Range(taken) = 0..(NCols(trainRef) - 1)

\* atan(d / |o|) >= pi/8 for an offset o and a distortion d >= 0 of the round
\* (both times the same positive factor): undefined, hence not satisfied,
\* for 0/0 and for NaN; satisfied for d > 0 = o; otherwise d/|o| >=
\* tan(pi/8) = sqrt(2) - 1.
AngleAtLeastPi8(o, d) ==
  /\ o.k = "num"
  /\ d.k = "num"
  /\ IF o.v = 0 THEN d.v > 0
     ELSE (d.v + Abs(o.v)) * (d.v + Abs(o.v)) >= 2 * o.v * o.v

RoundAngle(rd, j) == AngleAtLeastPi8(rd.offsets[j + 1], rd.distortions[j + 1])

RoundTaken(rd) == {rd.taken[j].second : j \in 1..Len(rd.taken)}

C7_SearchReadOnly ==
  [][(th' # th) =>
       /\ UNCHANGED <<l, m, candidateSet, candidateIndices>>
       /\ \A t \in Threads :
            (th'[t].pc = "done" /\ th[t].pc # "done") =>
              [outcome |-> th'[t].outcome, neighbors |-> th'[t].neighbors,
               distances |-> th'[t].distances]
                \in Search(Self, th'[t].querySet, th'[t].k)]_vars

\* A search that returned results for a query point while the other thread
\* was in the middle of its own search of the same object.
C7_Witness ==
  /\ th[1].pc = "done"
  /\ th[1].outcome = "ok"
  /\ th[1].k >= 1
  /\ NCols(th[1].querySet) >= 1
  /\ th[2].pc = "map"
  /\ th[2].k >= 1

====
